---------------------------- MODULE Spec2Model ----------------------------
(***************************************************************************)
(* DnsSocket (usnet_sockets/src/resolve/socket.rs): a UDP socket that      *)
(* sends and receives DNS messages, with its unified Error type.           *)
(*                                                                         *)
(* The socket layer itself (send_message, recv_from, recv_message,         *)
(* Error::is_timeout, DnsSocket::new / bind) is translated from socket.rs. *)
(* The collaborators it calls -- the message codec (super::message), the   *)
(* address comparison (super::address) and the datagram transport          *)
(* (apimultithread::UdpSocket) -- are modelled from their documented       *)
(* contracts.                                                              *)
(***************************************************************************)
EXTENDS Integers, Sequences, FiniteSets, TLC

VARIABLES
    sock,      \* sock[s]: the bound socket handle owned by DnsSocket s
    queue,     \* queue[s]: the datagrams waiting in s's receive queue, oldest first
    last       \* the last call made by the caller, with its arguments and result

vars == <<sock, queue, last>>

----------------------------------------------------------------------------
(* Bounds of the model *)

MaxInFlight == 2  \* datagrams the network buffers at a time; further ones are dropped
MaxBody == 2      \* a message carries at most MaxBody body bytes

(* The codec's maximum wire size, scaled down so that a message can exceed it. *)
MESSAGE_LIMIT == 3

(* the byte values the model uses *)
Byte == 0..1

Min(a, b) == IF a <= b THEN a ELSE b

SeqsUpTo(S, n) == UNION {[1..k -> S] : k \in 0..n}

----------------------------------------------------------------------------
(* Addresses: std::net::IpAddr / SocketAddr *)

V4(h) == [fam |-> "V4", mapped |-> FALSE, host |-> h]
V6(h) == [fam |-> "V6", mapped |-> FALSE, host |-> h]
(* ::ffff:a.b.c.d, the IPv4-mapped IPv6 form of the IPv4 address h *)
V6Mapped(h) == [fam |-> "V6", mapped |-> TRUE, host |-> h]

SocketAddr(ip, port) == [ip |-> ip, port |-> port]

Loopback == "127.0.0.1"
Loopback6 == "::1"
Unspecified6 == V6("::")       \* Ipv6Addr::new(0, 0, 0, 0, 0, 0, 0, 0)

(* super::address::address_equal: an IPv4 address equals its IPv4-mapped *)
(* IPv6 form; otherwise the addresses are compared as they are.          *)
address_equal(a, b) ==
    CASE a.fam = "V4" /\ b.fam = "V4" -> a.host = b.host
      [] a.fam = "V6" /\ b.fam = "V6" -> a = b
      [] a.fam = "V4" /\ b.fam = "V6" -> b.mapped /\ b.host = a.host
      [] a.fam = "V6" /\ b.fam = "V4" -> a.mapped /\ a.host = b.host

(* super::address::socket_address_equal *)
socket_address_equal(a, b) == a.port = b.port /\ address_equal(a.ip, b.ip)

----------------------------------------------------------------------------
(* Error and results *)

NoMsg == [id |-> -1, qs |-> <<>>]
NoAddr == SocketAddr(V4("none"), 0)
NoErr == [variant |-> "None", kind |-> "None"]

DecodeError(k) == [variant |-> "DecodeError", kind |-> k]
EncodeError(k) == [variant |-> "EncodeError", kind |-> k]
DnsError(k) == [variant |-> "DnsError", kind |-> k]
IoError(k) == [variant |-> "IoError", kind |-> k]

IoKinds == {"TimedOut", "WouldBlock", "Interrupted", "ConnectionRefused"}
DecodeKinds == {"ShortMessage", "ExtraneousData"}
EncodeKinds == {"TooLong"}
DnsKinds == {"ServerFailure", "NameError"}

ErrorValues ==
    {DecodeError(k) : k \in DecodeKinds} \cup {EncodeError(k) : k \in EncodeKinds}
        \cup {DnsError(k) : k \in DnsKinds} \cup {IoError(k) : k \in IoKinds}

Result(tag, msg, addr, err) == [tag |-> tag, msg |-> msg, addr |-> addr, err |-> err]
OkUnit == Result("Ok", NoMsg, NoAddr, NoErr)
OkPair(m, a) == Result("OkPair", m, a, NoErr)
OkNone == Result("OkNone", NoMsg, NoAddr, NoErr)
OkSome(m) == Result("OkSome", m, NoAddr, NoErr)
Err(e) == Result("Err", NoMsg, NoAddr, e)

(* a variant of is_timeout that forgets the would-block kind *)
is_timeout_timed_out_only(e) ==
    IF e.variant = "IoError"
    THEN e.kind = "TimedOut"
    ELSE FALSE

(* Error::is_timeout *)
is_timeout(e) ==
    IF e.variant = "IoError"
    THEN e.kind = "TimedOut" \/ e.kind = "WouldBlock"
    ELSE FALSE

----------------------------------------------------------------------------
(* The message codec: Message::encode, Message::decode *)

(* the messages the callers of this layer send: an id and up to MaxBody *)
(* body bytes; decode also yields the other messages, with the id and   *)
(* the body bytes a peer outside this layer put on the wire             *)
Messages == [id : {0}, qs : SeqsUpTo({0}, MaxBody)]

(* wire form: the id, the number of body bytes, the body bytes *)
Wire(m) == <<m.id, Len(m.qs)>> \o m.qs

(* Message::encode(&mut buf): the encoded byte range, a prefix of buf *)
encode(m, b) ==
    IF Len(Wire(m)) > Len(b)
    THEN [ok |-> FALSE, data |-> <<>>, err |-> EncodeError("TooLong")]
    ELSE [ok |-> TRUE, data |-> Wire(m), err |-> NoErr]

(* Message::decode(&bytes) *)
decode(bytes) ==
    IF Len(bytes) < 2 \/ Len(bytes) < 2 + bytes[2]
    THEN [ok |-> FALSE, msg |-> NoMsg, err |-> DecodeError("ShortMessage")]
    ELSE IF Len(bytes) > 2 + bytes[2]
    THEN [ok |-> FALSE, msg |-> NoMsg, err |-> DecodeError("ExtraneousData")]
    ELSE [ok |-> TRUE, msg |-> [id |-> bytes[1], qs |-> SubSeq(bytes, 3, Len(bytes))],
          err |-> NoErr]

----------------------------------------------------------------------------
(* The datagram transport: UdpSocket *)

Sock == {"A", "B"}
EphemeralPort == [s \in Sock |-> IF s = "A" THEN 1 ELSE 2]

(* UdpSocket::bind: a socket bound to an IPv6 address is dual-stack; port 0 *)
(* asks for an ephemeral port.                                              *)
UdpBind(s, addr) ==
    [fam |-> addr.ip.fam,
     port |-> IF addr.port = 0 THEN EphemeralPort[s] ELSE addr.port]

(* the address under which other peers reach socket s on the loopback *)
PeerAddr(s) == SocketAddr(V4(Loopback), sock[s].port)

(* another peer of the network, which does not use this layer *)
PeerC == SocketAddr(V4(Loopback), 3)

(* the sender address as socket s surfaces it: a dual-stack socket reports *)
(* an IPv4 peer in IPv4-mapped form                                        *)
Observed(s, from) ==
    IF sock[s].fam = "V6" /\ from.ip.fam = "V4"
    THEN SocketAddr(V6Mapped(from.ip.host), from.port)
    ELSE from

(* the sockets a datagram sent to address `to` arrives at *)
Route(to) ==
    {s \in Sock :
        /\ sock[s].port = to.port
        /\ \/ to.ip \in {V4(Loopback), V6Mapped(Loopback)}
           \/ to.ip = V6(Loopback6) /\ sock[s].fam = "V6"}

(* a queued datagram: the sender address as surfaced and the payload; and, *)
(* for the record, the address it was sent to and who sent it (a socket of *)
(* this layer, with the message it passed to send_message, or "raw")       *)
Dgram(src, data, to, by, msg) ==
    [src |-> src, data |-> data, to |-> to, by |-> by, msg |-> msg]

InFlight(q) == Len(q["A"]) + Len(q["B"])

(* the receive queues after the network carried `data` from `from` to `to` *)
Deliver(q, from, data, to, by, msg) ==
    [s \in Sock |->
        IF s \in Route(to) /\ InFlight(q) < MaxInFlight
        THEN Append(q[s], Dgram(Observed(s, from), data, to, by, msg))
        ELSE q[s]]

(* the receive queues after the network carried every datagram of `calls` *)
RECURSIVE DeliverAll(_, _, _, _, _)
DeliverAll(q, from, calls, by, msg) ==
    IF calls = <<>>
    THEN q
    ELSE DeliverAll(Deliver(q, from, Head(calls).data, Head(calls).to, by, msg),
                    from, Tail(calls), by, msg)

(* UdpSocket::send_to: io is the transport's outcome *)
UdpSendTo(s, data, addr, io) ==
    IF io \in IoKinds
    THEN [ok |-> FALSE, err |-> IoError(io)]
    ELSE [ok |-> TRUE, err |-> NoErr]

(* UdpSocket::recv_from: the head of the queue is copied into b, cut to b's *)
(* length; the bytes of b past the datagram's length keep their content     *)
UdpRecvFrom(s, b, io) ==
    IF io \in IoKinds
    THEN [ok |-> FALSE, n |-> 0, addr |-> NoAddr, buf |-> b, err |-> IoError(io)]
    ELSE LET d == Head(queue[s])
             n == Min(Len(d.data), Len(b))
         IN [ok |-> TRUE, n |-> n, addr |-> d.src,
             buf |-> [i \in 1..Len(b) |-> IF i <= n THEN d.data[i] ELSE b[i]],
             err |-> NoErr]

SendOutcomes == {"ok", "ConnectionRefused"}

RecvOutcomes(s) ==
    IF queue[s] = <<>>
    THEN {"TimedOut", "WouldBlock", "Interrupted"}
    ELSE {"ok", "Interrupted"}

----------------------------------------------------------------------------
(* DnsSocket *)

(* DnsSocket::bind *)
DnsSocket_bind(s, addr) == UdpBind(s, addr)

(* DnsSocket::new *)
DnsSocket_new(s) == DnsSocket_bind(s, SocketAddr(Unspecified6, 0))

(* a variant of send_message that sends the cut buffer when encoding fails *)
send_message_truncating(s, message, addr, io) ==
    LET b == [i \in 1..MESSAGE_LIMIT |-> 0]
        data == encode(message, b)
        bytes == IF data.ok THEN data.data ELSE SubSeq(Wire(message), 1, MESSAGE_LIMIT)
        snd == UdpSendTo(s, bytes, addr, io)
    IN [res |-> IF ~data.ok THEN Err(data.err)
                ELSE IF snd.ok THEN OkUnit ELSE Err(snd.err),
        calls |-> <<[data |-> bytes, to |-> addr]>>]

(* a variant of send_message that sends the whole buffer *)
send_message_whole_buffer(s, message, addr, io) ==
    LET b == [i \in 1..MESSAGE_LIMIT |-> 0]
        data == encode(message, b)
        bytes == [i \in 1..MESSAGE_LIMIT |->
                     IF i <= Len(data.data) THEN data.data[i] ELSE b[i]]
    IN IF ~data.ok
       THEN [res |-> Err(data.err), calls |-> <<>>]
       ELSE LET snd == UdpSendTo(s, bytes, addr, io)
            IN [res |-> IF snd.ok THEN OkUnit ELSE Err(snd.err),
                calls |-> <<[data |-> bytes, to |-> addr]>>]

(* a variant of send_message that sends to the socket's own address *)
send_message_own_address(s, message, addr, io) ==
    LET b == [i \in 1..MESSAGE_LIMIT |-> 0]
        data == encode(message, b)
    IN IF ~data.ok
       THEN [res |-> Err(data.err), calls |-> <<>>]
       ELSE LET snd == UdpSendTo(s, data.data, PeerAddr(s), io)
            IN [res |-> IF snd.ok THEN OkUnit ELSE Err(snd.err),
                calls |-> <<[data |-> data.data, to |-> PeerAddr(s)]>>]

(* a variant of send_message that sends the datagram a second time *)
send_message_twice(s, message, addr, io) ==
    LET b == [i \in 1..MESSAGE_LIMIT |-> 0]
        data == encode(message, b)
    IN IF ~data.ok
       THEN [res |-> Err(data.err), calls |-> <<>>]
       ELSE LET snd == UdpSendTo(s, data.data, addr, io)
            IN [res |-> IF snd.ok THEN OkUnit ELSE Err(snd.err),
                calls |-> <<[data |-> data.data, to |-> addr],
                            [data |-> data.data, to |-> addr]>>]

(* DnsSocket::send_message: res is the call's result, calls the datagrams *)
(* it handed to the transport's send_to                                    *)
send_message(s, message, addr, io) ==
    LET b == [i \in 1..MESSAGE_LIMIT |-> 0]
        data == encode(message, b)
    IN IF ~data.ok
       THEN [res |-> Err(data.err), calls |-> <<>>]
       ELSE LET snd == UdpSendTo(s, data.data, addr, io)
            IN [res |-> IF snd.ok THEN OkUnit ELSE Err(snd.err),
                calls |-> <<[data |-> data.data, to |-> addr]>>]

(* a variant of recv_from that decodes the whole buffer *)
recv_from_whole_buffer(s, b, io) ==
    LET r == UdpRecvFrom(s, b, io)
    IN IF ~r.ok
       THEN [res |-> Err(r.err), buf |-> r.buf, took |-> FALSE]
       ELSE LET msg == decode(r.buf)
            IN [res |-> IF msg.ok THEN OkPair(msg.msg, r.addr) ELSE Err(msg.err),
                buf |-> r.buf, took |-> TRUE]

(* a variant of recv_from that leaves a datagram it cannot decode queued *)
recv_from_keeps_malformed(s, b, io) ==
    LET r == UdpRecvFrom(s, b, io)
    IN IF ~r.ok
       THEN [res |-> Err(r.err), buf |-> r.buf, took |-> FALSE]
       ELSE LET msg == decode(SubSeq(r.buf, 1, r.n))
            IN [res |-> IF msg.ok THEN OkPair(msg.msg, r.addr) ELSE Err(msg.err),
                buf |-> r.buf, took |-> msg.ok]

(* DnsSocket::recv_from *)
recv_from(s, b, io) ==
    LET r == UdpRecvFrom(s, b, io)
    IN IF ~r.ok
       THEN [res |-> Err(r.err), buf |-> r.buf, took |-> FALSE]
       ELSE LET msg == decode(SubSeq(r.buf, 1, r.n))
            IN [res |-> IF msg.ok THEN OkPair(msg.msg, r.addr) ELSE Err(msg.err),
                buf |-> r.buf, took |-> TRUE]

(* a variant of recv_message that compares the addresses with == *)
recv_message_default_eq(s, addr, b, io) ==
    LET r == UdpRecvFrom(s, b, io)
    IN IF ~r.ok
       THEN [res |-> Err(r.err), buf |-> r.buf, took |-> FALSE]
       ELSE IF r.addr # addr
       THEN [res |-> OkNone, buf |-> r.buf, took |-> TRUE]
       ELSE LET msg == decode(SubSeq(r.buf, 1, r.n))
            IN [res |-> IF msg.ok THEN OkSome(msg.msg) ELSE Err(msg.err),
                buf |-> r.buf, took |-> TRUE]

(* a variant of recv_message that decodes before it compares the addresses *)
recv_message_decode_first(s, addr, b, io) ==
    LET r == UdpRecvFrom(s, b, io)
    IN IF ~r.ok
       THEN [res |-> Err(r.err), buf |-> r.buf, took |-> FALSE]
       ELSE LET msg == decode(SubSeq(r.buf, 1, r.n))
            IN [res |-> IF ~msg.ok THEN Err(msg.err)
                        ELSE IF ~socket_address_equal(r.addr, addr) THEN OkNone
                        ELSE OkSome(msg.msg),
                buf |-> r.buf, took |-> TRUE]

(* a variant of recv_message that answers Ok(None) when decoding fails *)
recv_message_swallows_decode_error(s, addr, b, io) ==
    LET r == UdpRecvFrom(s, b, io)
    IN IF ~r.ok
       THEN [res |-> Err(r.err), buf |-> r.buf, took |-> FALSE]
       ELSE IF ~socket_address_equal(r.addr, addr)
       THEN [res |-> OkNone, buf |-> r.buf, took |-> TRUE]
       ELSE LET msg == decode(SubSeq(r.buf, 1, r.n))
            IN [res |-> IF msg.ok THEN OkSome(msg.msg) ELSE OkNone,
                buf |-> r.buf, took |-> TRUE]

(* DnsSocket::recv_message *)
recv_message(s, addr, b, io) ==
    LET r == UdpRecvFrom(s, b, io)
    IN IF ~r.ok
       THEN [res |-> Err(r.err), buf |-> r.buf, took |-> FALSE]
       ELSE IF ~socket_address_equal(r.addr, addr)
       THEN [res |-> OkNone, buf |-> r.buf, took |-> TRUE]
       ELSE LET msg == decode(SubSeq(r.buf, 1, r.n))
            IN [res |-> IF msg.ok THEN OkSome(msg.msg) ELSE Err(msg.err),
                buf |-> r.buf, took |-> TRUE]

----------------------------------------------------------------------------
(* The state machine *)

NoDgram == Dgram(NoAddr, <<>>, NoAddr, "none", NoMsg)

(* a call of the caller: its arguments, its result, the datagrams it handed *)
(* to the transport, the datagram it took from the receive queue and the   *)
(* caller's buffer as the call found it and left it                        *)
Call(op, s, msg, addr, io, res, calls, dgram, b0, b1) ==
    [op |-> op, sock |-> s, msg |-> msg, addr |-> addr, io |-> io, res |-> res,
     calls |-> calls, dgram |-> dgram, bufIn |-> b0, buf |-> b1]

NoCall == Call("none", "A", NoMsg, NoAddr, "none", OkUnit, <<>>, NoDgram, <<>>, <<>>)

(* A is bound to 127.0.0.1:0, B is made by DnsSocket::new() *)
Init ==
    /\ sock = [s \in Sock |->
                 IF s = "A" THEN DnsSocket_bind(s, SocketAddr(V4(Loopback), 0))
                            ELSE DnsSocket_new(s)]
    /\ queue = [s \in Sock |-> <<>>]
    /\ last = NoCall

(* the addresses a caller sends to *)
SendAddrs == {SocketAddr(V4(Loopback), p) : p \in 1..2}

(* the addresses a caller expects an answer from *)
ExpectAddrs ==
    {SocketAddr(V4(Loopback), p) : p \in 1..3} \cup {SocketAddr(V6(Loopback6), 1)}

(* the caller's buffer of MESSAGE_LIMIT bytes, as an earlier use left it *)
Buffers == {[i \in 1..MESSAGE_LIMIT |-> c] : c \in Byte}

SendMessage(s, m, to, io) ==
    LET r == send_message(s, m, to, io)
    IN /\ queue' = IF io = "ok"
                   THEN DeliverAll(queue, PeerAddr(s), r.calls, s, m)
                   ELSE queue
       /\ last' = Call("send_message", s, m, to, io, r.res, r.calls, NoDgram, <<>>, <<>>)
       /\ UNCHANGED sock

RecvFrom(s, b, io) ==
    LET r == recv_from(s, b, io)
    IN /\ queue' = IF r.took THEN [queue EXCEPT ![s] = Tail(@)] ELSE queue
       /\ last' = Call("recv_from", s, NoMsg, NoAddr, io, r.res, <<>>,
                       IF r.took THEN Head(queue[s]) ELSE NoDgram, b, r.buf)
       /\ UNCHANGED sock

RecvMessage(s, addr, b, io) ==
    LET r == recv_message(s, addr, b, io)
    IN /\ queue' = IF r.took THEN [queue EXCEPT ![s] = Tail(@)] ELSE queue
       /\ last' = Call("recv_message", s, NoMsg, addr, io, r.res, <<>>,
                       IF r.took THEN Head(queue[s]) ELSE NoDgram, b, r.buf)
       /\ UNCHANGED sock

(* a peer outside this layer sends raw bytes, well-formed or not; `last` *)
(* records a call only in the state the call leads to                    *)
RawPayloads == {<<1>>, <<1, 0, 1>>, <<1, 0>>}

RawSend(from, data, to) ==
    /\ queue' = Deliver(queue, from, data, to, "raw", NoMsg)
    /\ queue' # queue
    /\ last' = NoCall
    /\ UNCHANGED sock

(* the caller classifies an error *)
IsTimeout(e) ==
    /\ last' = Call("is_timeout", "A", NoMsg, NoAddr, "none",
                    Result(IF is_timeout(e) THEN "True" ELSE "False", NoMsg, NoAddr, e),
                    <<>>, NoDgram, <<>>, <<>>)
    /\ UNCHANGED <<sock, queue>>

Next ==
    \/ \E s \in Sock, m \in Messages, to \in SendAddrs, io \in SendOutcomes :
          SendMessage(s, m, to, io)
    \/ \E s \in Sock, b \in Buffers, io \in IoKinds \cup {"ok"} :
          io \in RecvOutcomes(s) /\ RecvFrom(s, b, io)
    \/ \E s \in Sock, addr \in ExpectAddrs, b \in Buffers, io \in IoKinds \cup {"ok"} :
          io \in RecvOutcomes(s) /\ RecvMessage(s, addr, b, io)
    \/ \E data \in RawPayloads, s \in Sock : RawSend(PeerC, data, PeerAddr(s))
    \/ \E e \in ErrorValues : IsTimeout(e)

Spec == Init /\ [][Next]_vars

(* the runs in which only the sockets of this layer send *)
NextLayer ==
    \/ \E s \in Sock, m \in Messages, to \in SendAddrs, io \in SendOutcomes :
          SendMessage(s, m, to, io)
    \/ \E s \in Sock, b \in Buffers, io \in IoKinds \cup {"ok"} :
          io \in RecvOutcomes(s) /\ RecvFrom(s, b, io)
    \/ \E s \in Sock, addr \in ExpectAddrs, b \in Buffers, io \in IoKinds \cup {"ok"} :
          io \in RecvOutcomes(s) /\ RecvMessage(s, addr, b, io)

SpecLayer == Init /\ [][NextLayer]_vars

----------------------------------------------------------------------------
(* What the properties below read from a call *)

(* the call took a datagram from the receive queue *)
Took == last.dgram.by # "none"

(* the bytes of the datagram the call took that fit the caller's buffer *)
Received == SubSeq(last.dgram.data, 1, Min(Len(last.dgram.data), MESSAGE_LIMIT))

(* an address with the IPv4-mapped IPv6 form replaced by the IPv4 address *)
Normal(a) ==
    IF a.ip.fam = "V6" /\ a.ip.mapped THEN SocketAddr(V4(a.ip.host), a.port) ELSE a

SameSender(a, b) == Normal(a) = Normal(b)

----------------------------------------------------------------------------
(* C1: when recv_message takes a datagram whose sender differs from the     *)
(* expected address (IPv4-mapped forms normalised), the result is Ok(None); *)
(* when the sender equals it, also as the IPv4-mapped form of an expected   *)
(* IPv4 address, the result is the decoding of the datagram: Ok(Some(msg))  *)
(* for every payload the codec decodes.                                     *)
C1_SenderFilter ==
    (last.op = "recv_message" /\ Took) =>
        IF SameSender(last.dgram.src, last.addr)
        THEN /\ last.res # OkNone
             /\ decode(Received).ok => last.res = OkSome(decode(Received).msg)
        ELSE last.res = OkNone

C1_Witness ==
    /\ last.op = "recv_message"
    /\ last.addr.ip = V4(Loopback)
    /\ last.dgram.src = SocketAddr(V6Mapped(Loopback), last.addr.port)
    /\ last.res.tag = "OkSome"

(* C2: a datagram from a sender that does not match is taken off the head   *)
(* of the receive queue and not decoded: the result is Ok(None) also for a  *)
(* payload the codec rejects, and the queue is left with the datagrams that *)
(* followed it, so that the next receive call takes the next datagram.      *)
C2_MismatchDiscards ==
    [][(/\ last'.op = "recv_message"
        /\ queue[last'.sock] # <<>>
        /\ last'.io = "ok"
        /\ ~SameSender(Head(queue[last'.sock]).src, last'.addr))
       => /\ last'.res = OkNone
          /\ last'.dgram = Head(queue[last'.sock])
          /\ queue' = [queue EXCEPT ![last'.sock] = Tail(@)]]_vars

C2_Witness ==
    /\ last.op = "recv_message"
    /\ Took
    /\ ~SameSender(last.dgram.src, last.addr)
    /\ ~decode(Received).ok
    /\ last.res = OkNone
    /\ queue[last.sock] # <<>>

(* C3: is_timeout is true exactly for an IoError whose kind is TimedOut or  *)
(* WouldBlock: false for the other variants and the other kinds.            *)
C3_IsTimeout ==
    /\ last.op = "is_timeout" =>
          (last.res.tag = "True" <=>
              last.res.err \in {IoError("TimedOut"), IoError("WouldBlock")})
    /\ last.res.tag = "Err" =>
          (is_timeout(last.res.err) <=>
              last.res.err \in {IoError("TimedOut"), IoError("WouldBlock")})

C3_Witness ==
    /\ last.op = "is_timeout"
    /\ last.res.err = IoError("WouldBlock")
    /\ last.res.tag = "True"

(* C4: send_message of a message whose wire form is longer than             *)
(* MESSAGE_LIMIT returns EncodeError, and a call that returns EncodeError   *)
(* hands no datagram to the transport and leaves the queues as they were.   *)
C4_EncodeError ==
    [][last'.op = "send_message" =>
        /\ Len(Wire(last'.msg)) > MESSAGE_LIMIT =>
              (last'.res.tag = "Err" /\ last'.res.err.variant = "EncodeError")
        /\ (last'.res.tag = "Err" /\ last'.res.err.variant = "EncodeError") =>
              (last'.calls = <<>> /\ queue' = queue)]_vars

C4_Witness ==
    /\ last.op = "send_message"
    /\ Len(Wire(last.msg)) > MESSAGE_LIMIT
    /\ last.res = Err(EncodeError("TooLong"))
    /\ last.calls = <<>>

(* C5: a recv_from that succeeds returns the decoding of the first n bytes  *)
(* of the buffer, n the length of the datagram it took, with the sender of  *)
(* that datagram; what the buffer held past n does not enter the message.   *)
C5_DecodesReceivedBytes ==
    (last.op = "recv_from" /\ last.res.tag = "OkPair") =>
        /\ Took
        /\ SubSeq(last.buf, 1, Len(Received)) = Received
        /\ decode(Received).ok
        /\ last.res.msg = decode(Received).msg
        /\ last.res.addr = last.dgram.src

C5_Witness ==
    /\ last.op = "recv_from"
    /\ last.res.tag = "OkPair"
    /\ Len(Received) < MESSAGE_LIMIT
    /\ last.buf[MESSAGE_LIMIT] = 1
    /\ last.res.msg = [id |-> 0, qs |-> <<>>]

(* C6: a message whose wire form fits MESSAGE_LIMIT comes back as sent:     *)
(* send_message hands the transport bytes that decode to the message, the   *)
(* recv_from that takes the datagram returns the message with the sender's  *)
(* address, and recv_message returns Some(message) when it expects the      *)
(* sender and None when it expects another address.                         *)
C6_RoundTrip ==
    /\ (last.op = "send_message" /\ Len(Wire(last.msg)) <= MESSAGE_LIMIT) =>
          /\ Len(last.calls) = 1
          /\ decode(last.calls[1].data).ok
          /\ decode(last.calls[1].data).msg = last.msg
    /\ (last.op = "recv_from" /\ Took /\ last.dgram.by \in Sock) =>
          /\ last.res.tag = "OkPair"
          /\ last.res.msg = last.dgram.msg
          /\ Normal(last.res.addr) = PeerAddr(last.dgram.by)
          /\ sock[last.sock].fam = "V4" => last.res.addr = PeerAddr(last.dgram.by)
    /\ (last.op = "recv_message" /\ Took /\ last.dgram.by \in Sock) =>
          last.res = IF SameSender(last.addr, PeerAddr(last.dgram.by))
                     THEN OkSome(last.dgram.msg)
                     ELSE OkNone

C6_Witness ==
    /\ last.op = "recv_from"
    /\ last.sock = "A"
    /\ last.dgram.by = "B"
    /\ last.res = OkPair([id |-> 0, qs |-> <<0>>], SocketAddr(V4(Loopback), 2))

(* C7: in the runs in which only this layer's sockets send, a message that  *)
(* a receive call returns is the message of a datagram that a send_message  *)
(* call sent to the receiving socket's address, and a send_message call     *)
(* adds nothing to the sender's own receive queue unless it sends to the    *)
(* sender's own address.                                                    *)
C7_NoCrossTalk ==
    [][/\ (last'.op \in {"recv_from", "recv_message"}
            /\ last'.res.tag \in {"OkPair", "OkSome"}) =>
             /\ queue[last'.sock] # <<>>
             /\ Head(queue[last'.sock]).by \in Sock
             /\ SameSender(Head(queue[last'.sock]).to, PeerAddr(last'.sock))
             /\ last'.res.msg = Head(queue[last'.sock]).msg
       /\ (last'.op = "send_message"
            /\ ~SameSender(last'.addr, PeerAddr(last'.sock))) =>
             queue'[last'.sock] = queue[last'.sock]]_vars

C7_Witness ==
    /\ last.op = "recv_from"
    /\ last.sock = "B"
    /\ last.dgram.by = "A"
    /\ last.res = OkPair(last.dgram.msg, SocketAddr(V6Mapped(Loopback), 1))
    /\ queue["B"] = <<>>
    /\ queue["A"] # <<>>
    /\ queue["A"][1].by = "B"

(* C8: recv_message passes on the failures as recv_from does: a failure of  *)
(* the transport gives IoError with the transport's error, whatever address *)
(* is expected, and a datagram of the expected sender that the codec        *)
(* rejects gives DecodeError with the codec's error; Ok(None) is returned   *)
(* only for a datagram whose sender does not match.                         *)
C8_FailuresPropagate ==
    /\ last.op \in {"recv_from", "recv_message"} =>
          /\ last.io \in IoKinds => (last.res = Err(IoError(last.io)) /\ ~Took)
          /\ (Took /\ ~decode(Received).ok
                   /\ (last.op = "recv_message" =>
                          SameSender(last.dgram.src, last.addr))) =>
                /\ last.res = Err(decode(Received).err)
                /\ last.res.err.variant = "DecodeError"
    /\ (last.op = "recv_message" /\ last.res = OkNone) =>
          (Took /\ ~SameSender(last.dgram.src, last.addr))

C8_Witness ==
    /\ last.op = "recv_message"
    /\ Took
    /\ SameSender(last.dgram.src, last.addr)
    /\ last.res = Err(DecodeError("ShortMessage"))

(* C9: a send_message that succeeds hands the transport one datagram, to    *)
(* the given address, whose payload is the wire form of the message (of its *)
(* length, not MESSAGE_LIMIT); the binding is unchanged, every receive      *)
(* queue is unchanged or has that datagram appended, and the sender's own   *)
(* queue is unchanged when the address is not its own.                      *)
C9_SendEffect ==
    [][/\ last'.op = "send_message" =>
          (last'.res = OkUnit <=>
              (Len(Wire(last'.msg)) <= MESSAGE_LIMIT /\ last'.io = "ok"))
       /\ (last'.op = "send_message" /\ last'.res = OkUnit) =>
        /\ last'.calls = <<[data |-> Wire(last'.msg), to |-> last'.addr]>>
        /\ sock' = sock
        /\ \A s \in Sock :
              \/ queue'[s] = queue[s]
              \/ /\ SameSender(last'.addr, PeerAddr(s))
                 /\ Len(queue'[s]) = Len(queue[s]) + 1
                 /\ SubSeq(queue'[s], 1, Len(queue[s])) = queue[s]
                 /\ queue'[s][Len(queue'[s])].data = Wire(last'.msg)
        /\ ~SameSender(last'.addr, PeerAddr(last'.sock)) =>
              queue'[last'.sock] = queue[last'.sock]]_vars

C9_Witness ==
    /\ last.op = "send_message"
    /\ last.res = OkUnit
    /\ last.sock = "A"
    /\ Len(last.calls) = 1
    /\ Len(last.calls[1].data) < MESSAGE_LIMIT
    /\ queue["A"] = <<>>
    /\ Len(queue["B"]) = 2
    /\ queue["B"][2].data = last.calls[1].data

(* the place in q of the first datagram whose sender is a, 0 if there is none *)
FirstFrom(q, a) ==
    IF \E i \in 1..Len(q) : SameSender(q[i].src, a)
    THEN CHOOSE i \in 1..Len(q) :
            /\ SameSender(q[i].src, a)
            /\ \A j \in 1..(i - 1) : ~SameSender(q[j].src, a)
    ELSE 0

(* C10: a receive call that does not fail with IoError takes exactly the    *)
(* head of the receive queue, also when the decoding fails, and one that    *)
(* fails with IoError takes nothing. With the first datagram of the         *)
(* expected sender at place i of the queue, recv_message answers Ok(None)   *)
(* and leaves it at place i - 1 when i > 1, and answers with the decoding   *)
(* of that datagram when i = 1: a caller that repeats the call while the    *)
(* answer is Ok(None) gets i - 1 times Ok(None), then that datagram.        *)
C10_ConsumesHead ==
    [][last'.op \in {"recv_from", "recv_message"} =>
        IF last'.res.tag = "Err" /\ last'.res.err.variant = "IoError"
        THEN queue' = queue
        ELSE /\ queue[last'.sock] # <<>>
             /\ last'.dgram = Head(queue[last'.sock])
             /\ queue' = [queue EXCEPT ![last'.sock] = Tail(@)]
             /\ last'.op = "recv_message" =>
                   LET i == FirstFrom(queue[last'.sock], last'.addr)
                       d == decode(SubSeq(Head(queue[last'.sock]).data, 1,
                                 Min(Len(Head(queue[last'.sock]).data), MESSAGE_LIMIT)))
                   IN /\ i # 1 => last'.res = OkNone
                      /\ i > 1 => FirstFrom(queue'[last'.sock], last'.addr) = i - 1
                      /\ i = 1 => last'.res = IF d.ok THEN OkSome(d.msg) ELSE Err(d.err)]_vars

C10_Witness ==
    /\ last.op = "recv_message"
    /\ Took
    /\ last.res = OkNone
    /\ ~decode(Received).ok
    /\ FirstFrom(queue[last.sock], last.addr) = 1

=============================================================================
